---------------------------- MODULE Spec2Model ----------------------------
(***************************************************************************)
(* Model of src/src/components/Frame.tsx: the Frame view (state slices,    *)
(* view selector, search handler, the refresh loop with its interval       *)
(* timer, the SDK load handshake) and the pure calculateDailyAllowance.    *)
(***************************************************************************)
EXTENDS Integers, Sequences, FiniteSets, TLC

(* ------------------------------ bounds -------------------------------- *)
\* largest numeric identifier (fid) the host or the user supplies
MaxFid == 1
\* number of loadInitialData and handleSearch invocations explored
MaxCalls == 4
\* the clock stops here
MaxTime == 60
\* the clock advances by at most this much in one step
TickStep == 30
\* largest DAILY_ALLOWANCE explored
MaxAllowance == 10

(* -------------------------- program constants ------------------------- *)
\* setInterval(loadInitialData, 30000): 30 time units (seconds)
REFRESH_PERIOD == 30

VARIABLES
    status,         \* "init" (constructed, effects not yet run), "mounted", "unmounted"
    isSDKLoaded,    \* useState(false)
    context,        \* useState<Context.FrameContext>(): NoContext or [added, fid]
    currentView,    \* useState(ViewState.STATS)
    userStats,      \* useState<NutStats | null>(null)
    leaderboard,    \* useState<LeaderboardEntry[]>([])
    searchFid,      \* useState(''): the text of the search input
    searchResults,  \* useState<NutStats | null>(null)
    error,          \* useState('')
    added,          \* useState(false)
    loadPc,         \* position of load(): "idle", "awaiting" (sdk.context), "done"
    listeners,      \* TRUE once load() has registered the sdk.on(...) listeners
    timers,         \* the active setInterval timers: [id, due, ctx]
    cycles,         \* loadInitialData invocations awaiting a fetch: [id, ctx, pc]
    nextCycle,      \* id of the next loadInitialData invocation
    searches,       \* handleSearch invocations awaiting fetchNutStats: [id, fid]
    nextSearch,     \* id of the next handleSearch invocation
    clock,          \* the time, in the units of REFRESH_PERIOD
    lastUpdated,    \* calculateDailyAllowance: its argument, a UTC timestamp
    nowDate,        \* calculateDailyAllowance: new Date(), a UTC timestamp
    DAILY_ALLOWANCE,        \* configuration constant consumed by calculateDailyAllowance
    ALLOWANCE_RESET_HOUR,   \* configuration constant consumed by calculateDailyAllowance
    remaining       \* what the Stats card shows as "Remaining": NotRendered or an integer

viewVars == <<status, isSDKLoaded, context, currentView, userStats, leaderboard,
              searchFid, searchResults, error, added, loadPc, listeners,
              timers, cycles, nextCycle, searches, nextSearch, clock>>

allowanceVars == <<lastUpdated, nowDate, DAILY_ALLOWANCE, ALLOWANCE_RESET_HOUR, remaining>>

vars == <<viewVars, allowanceVars>>

(* ------------------------------ values -------------------------------- *)
\* context is undefined until load() stores the host's context
NoContext == [added |-> FALSE, fid |-> 0, present |-> FALSE]

\* the host's context objects: client.added and actor.fid (0: absent)
Contexts == [added : BOOLEAN, fid : 0..MaxFid, present : {TRUE}]

\* enum ViewState
ViewState == {"STATS", "LEADERBOARD", "SEARCH"}

\* null
Null == [fid |-> 0, req |-> 0]

\* the initial leaderboard, []
EmptyBoard == <<>>

NotRendered == -1

(* ----------------------- thrown values and catch ---------------------- *)
\* new Error(message)
Error(message) == [isError |-> TRUE, message |-> message]

\* what fetch() itself rejects with when the transport fails (a TypeError)
NetworkError == Error("Failed to fetch")

\* fetchNutStats: the rejection of fetch, or the non-ok response's Error
FetchNutStatsFailures == {NetworkError, Error("Failed to fetch stats")}

\* fetchLeaderboard: the rejection of fetch, or the non-ok response's Error
FetchLeaderboardFailures == {NetworkError, Error("Failed to fetch leaderboard")}

\* err instanceof Error ? err.message : fallback
CatchMessage(err, fallback) == IF err.isError THEN err.message ELSE fallback

(* ------------------------------ parseInt ------------------------------ *)
DigitChars == <<"0", "1", "2", "3", "4", "5", "6", "7", "8", "9">>

IsDigit(ch) == \E i \in 1..10 : DigitChars[i] = ch

DigitValue(ch) == (CHOOSE i \in 1..10 : DigitChars[i] = ch) - 1

WhiteSpace == {" "}

NaN == [nan |-> TRUE, val |-> 0]

Number(n) == [nan |-> FALSE, val |-> n]

\* isNaN(x)
isNaN(x) == x.nan

RECURSIVE SkipWhiteSpace(_)
SkipWhiteSpace(s) ==
    IF s # <<>> /\ Head(s) \in WhiteSpace THEN SkipWhiteSpace(Tail(s)) ELSE s

\* the value of the longest prefix of digits of s, acc being the value so far
RECURSIVE DigitPrefix(_, _)
DigitPrefix(s, acc) ==
    IF s # <<>> /\ IsDigit(Head(s))
    THEN DigitPrefix(Tail(s), 10 * acc + DigitValue(Head(s)))
    ELSE acc

\* a conversion that takes a text without a digit for 0
parseIntOrZero(text) ==
    LET s    == SkipWhiteSpace(text)
        neg  == s # <<>> /\ Head(s) = "-"
        body == IF s # <<>> /\ Head(s) \in {"-", "+"} THEN Tail(s) ELSE s
    IN  Number(IF neg THEN 0 - DigitPrefix(body, 0) ELSE DigitPrefix(body, 0))

\* parseInt(text), radix 10: leading white space is skipped, a sign is taken,
\* the longest prefix of digits is the value, and no digit at all is NaN
parseInt(text) ==
    LET s    == SkipWhiteSpace(text)
        neg  == s # <<>> /\ Head(s) = "-"
        body == IF s # <<>> /\ Head(s) \in {"-", "+"} THEN Tail(s) ELSE s
    IN  IF body = <<>> \/ ~IsDigit(Head(body)) THEN NaN
        ELSE Number(IF neg THEN 0 - DigitPrefix(body, 0) ELSE DigitPrefix(body, 0))

\* `${fid}` for a fid below ten
FidText(fid) == <<DigitChars[fid + 1]>>

\* the texts typed into the search input
SearchInputs == {<<>>, <<"a", "b", "c">>} \cup {FidText(f) : f \in 1..MaxFid}

(* ------------------------------ payloads ------------------------------ *)
\* the NutStats the service returns for fid, to request req
NutStats(fid, req) == [fid |-> fid, req |-> req]

\* the leaderboard the service returns to request req
Leaderboard(req) == <<[req |-> req]>>

(* --------------------------- React plumbing --------------------------- *)
\* a state setter: it changes nothing once the component is unmounted
SetState(cur, new) == IF status = "mounted" THEN new ELSE cur

\* a setter that keeps the stats of a later request
SetUserStatsIfNewer(cur, stats) ==
    IF cur.req > stats.req THEN cur ELSE SetState(cur, stats)

\* setUserStats(stats): the response that resolves replaces the slice
SetUserStats(cur, stats) == SetState(cur, stats)

(* ---------------------------- refresh loop ---------------------------- *)
\* the loadInitialData and handleSearch invocations so far
Calls == (nextCycle - 1) + (nextSearch - 1)

\* the gate without its test of the identity
GateAddedOnly(ctx) == ctx.present /\ ctx.added

\* context?.client.added && context.actor?.fid
Gate(ctx) == ctx.present /\ ctx.added /\ ctx.fid # 0

\* a cycle that fetches the stats whatever the context
NewCycleUngated(ctx) == [id |-> nextCycle, ctx |-> ctx, pc |-> "stats"]

\* loadInitialData() up to its first await, for the context its closure holds
NewCycle(ctx) ==
    [id |-> nextCycle, ctx |-> ctx, pc |-> IF Gate(ctx) THEN "stats" ELSE "lb"]

\* setInterval(loadInitialData, 30000)
NewTimer(ctx) == [id |-> nextCycle, due |-> clock + REFRESH_PERIOD, ctx |-> ctx]

\* an effect that returns no cleanup
EffectNoCleanup(ts) == ts

\* return () => clearInterval(interval): the timer of the last effect run goes
EffectCleanup(ts) == {t \in ts : \E u \in ts : u.id > t.id}

\* an effect body that sets the interval and waits for it
RefreshEffectNoFirstCall(ts, ctx) ==
    /\ timers' = ts \cup {NewTimer(ctx)}
    /\ UNCHANGED <<cycles, nextCycle>>

\* the effect body: the interval is set and loadInitialData() is called
RefreshEffect(ts, ctx) ==
    /\ timers' = ts \cup {NewTimer(ctx)}
    /\ cycles' = cycles \cup {NewCycle(ctx)}
    /\ nextCycle' = nextCycle + 1

\* a catch that also drops what the loop had fetched
LoadInitialDataCatchClearing(err) ==
    /\ error' = SetState(error, CatchMessage(err, "Failed to load data"))
    /\ userStats' = SetState(userStats, Null)
    /\ leaderboard' = SetState(leaderboard, EmptyBoard)
    /\ UNCHANGED searchResults

\* a catch that also drops the result of the search
LoadInitialDataCatchClearingSearch(err) ==
    /\ error' = SetState(error, CatchMessage(err, "Failed to load data"))
    /\ searchResults' = SetState(searchResults, Null)
    /\ UNCHANGED <<userStats, leaderboard>>

\* catch (err) of loadInitialData: only the error slice is written
LoadInitialDataCatch(err) ==
    /\ error' = SetState(error, CatchMessage(err, "Failed to load data"))
    /\ UNCHANGED <<userStats, leaderboard, searchResults>>

\* the first render's effects run: the refresh effect with context undefined,
\* and the SDK effect, which sets isSDKLoaded and calls load(). The render that
\* setIsSDKLoaded(true) causes runs that effect's cleanup (removeAllListeners)
\* while load() still awaits the host, so before any listener is registered,
\* and the effect's second run returns no cleanup
Mount ==
    /\ status = "init"
    /\ status' = "mounted"
    /\ RefreshEffect(timers, context)
    /\ isSDKLoaded' = TRUE
    /\ loadPc' = "awaiting"
    /\ UNCHANGED <<context, currentView, userStats, leaderboard, searchFid,
                   searchResults, error, added, listeners, searches, nextSearch,
                   clock, allowanceVars>>

\* load() resumes with no context: it returns
LoadNoContext ==
    /\ loadPc = "awaiting"
    /\ loadPc' = "done"
    /\ UNCHANGED <<status, isSDKLoaded, context, currentView, userStats, leaderboard,
                   searchFid, searchResults, error, added, listeners,
                   timers, cycles, nextCycle, searches, nextSearch, clock,
                   allowanceVars>>

\* load() resumes with the host's context: setContext, setAdded, the listeners
\* are registered; the context changed, so the refresh effect is cleaned up
\* and run again
LoadContext(ctx) ==
    /\ loadPc = "awaiting"
    /\ status = "mounted" => Calls < MaxCalls
    /\ loadPc' = "done"
    /\ context' = SetState(context, ctx)
    /\ added' = SetState(added, ctx.added)
    /\ listeners' = TRUE
    /\ IF status = "mounted"
       THEN RefreshEffect(EffectCleanup(timers), ctx)
       ELSE UNCHANGED <<timers, cycles, nextCycle>>
    /\ UNCHANGED <<status, isSDKLoaded, currentView, userStats, leaderboard,
                   searchFid, searchResults, error, searches, nextSearch,
                   clock, allowanceVars>>

\* sdk.on("frameAdded", ...)
FrameAdded ==
    /\ listeners
    /\ added' = SetState(added, TRUE)
    /\ UNCHANGED <<status, isSDKLoaded, context, currentView, userStats, leaderboard,
                   searchFid, searchResults, error, loadPc, listeners,
                   timers, cycles, nextCycle, searches, nextSearch, clock,
                   allowanceVars>>

\* sdk.on("frameRemoved", ...)
FrameRemoved ==
    /\ listeners
    /\ added' = SetState(added, FALSE)
    /\ UNCHANGED <<status, isSDKLoaded, context, currentView, userStats, leaderboard,
                   searchFid, searchResults, error, loadPc, listeners,
                   timers, cycles, nextCycle, searches, nextSearch, clock,
                   allowanceVars>>

\* the interval elapses: loadInitialData() is called with the closure's context
TimerFire(t) ==
    /\ t \in timers
    /\ clock = t.due
    /\ Calls < MaxCalls
    /\ timers' = (timers \ {t}) \cup {[t EXCEPT !.due = t.due + REFRESH_PERIOD]}
    /\ cycles' = cycles \cup {NewCycle(t.ctx)}
    /\ nextCycle' = nextCycle + 1
    /\ UNCHANGED <<status, isSDKLoaded, context, currentView, userStats, leaderboard,
                   searchFid, searchResults, error, added, loadPc, listeners, searches, nextSearch, clock, allowanceVars>>

\* await fetchNutStats(context.actor.fid) resolves: setUserStats(stats), and the
\* leaderboard is requested
StatsResolve(c) ==
    /\ c \in cycles
    /\ c.pc = "stats"
    /\ userStats' = SetUserStats(userStats, NutStats(c.ctx.fid, c.id))
    /\ cycles' = (cycles \ {c}) \cup {[c EXCEPT !.pc = "lb"]}
    /\ UNCHANGED <<status, isSDKLoaded, context, currentView, leaderboard, searchFid,
                   searchResults, error, added, loadPc, listeners,
                   timers, nextCycle, searches, nextSearch, clock, allowanceVars>>

\* await fetchNutStats(...) rejects: the catch ends loadInitialData
StatsReject(c, err) ==
    /\ c \in cycles
    /\ c.pc = "stats"
    /\ LoadInitialDataCatch(err)
    /\ cycles' = cycles \ {c}
    /\ UNCHANGED <<status, isSDKLoaded, context, currentView, searchFid, added,
                   loadPc, listeners, timers, nextCycle, searches,
                   nextSearch, clock, allowanceVars>>

\* await fetchLeaderboard() resolves: setLeaderboard(leaderboardData)
LeaderboardResolve(c) ==
    /\ c \in cycles
    /\ c.pc = "lb"
    /\ leaderboard' = SetState(leaderboard, Leaderboard(c.id))
    /\ cycles' = cycles \ {c}
    /\ UNCHANGED <<status, isSDKLoaded, context, currentView, userStats, searchFid,
                   searchResults, error, added, loadPc, listeners,
                   timers, nextCycle, searches, nextSearch, clock, allowanceVars>>

\* a rejection whose catch also clears the interval
LeaderboardRejectStoppingLoop(c, err) ==
    /\ c \in cycles
    /\ c.pc = "lb"
    /\ LoadInitialDataCatch(err)
    /\ cycles' = cycles \ {c}
    /\ timers' = {}
    /\ UNCHANGED <<status, isSDKLoaded, context, currentView, searchFid, added,
                   loadPc, listeners, nextCycle, searches,
                   nextSearch, clock, allowanceVars>>

\* await fetchLeaderboard() rejects: the catch ends loadInitialData
LeaderboardReject(c, err) ==
    /\ c \in cycles
    /\ c.pc = "lb"
    /\ LoadInitialDataCatch(err)
    /\ cycles' = cycles \ {c}
    /\ UNCHANGED <<status, isSDKLoaded, context, currentView, searchFid, added,
                   loadPc, listeners, timers, nextCycle, searches,
                   nextSearch, clock, allowanceVars>>

(* ------------------------------- search ------------------------------- *)
\* a catch that clears the own stats along with the search result
HandleSearchCatchClearingStats(err) ==
    /\ error' = SetState(error, CatchMessage(err, "Failed to search"))
    /\ searchResults' = SetState(searchResults, Null)
    /\ userStats' = SetState(userStats, Null)
    /\ UNCHANGED leaderboard

\* catch (err) of handleSearch: the error is set and the result is cleared
HandleSearchCatch(err) ==
    /\ error' = SetState(error, CatchMessage(err, "Failed to search"))
    /\ searchResults' = SetState(searchResults, Null)
    /\ UNCHANGED <<userStats, leaderboard>>

\* onChange of the search input: setSearchFid(e.target.value)
SetSearchFid(text) ==
    /\ status = "mounted"
    /\ searchFid' = text
    /\ UNCHANGED <<status, isSDKLoaded, context, currentView, userStats, leaderboard,
                   searchResults, error, added, loadPc, listeners, timers, cycles,
                   nextCycle, searches, nextSearch, clock, allowanceVars>>

\* a test no text passes
IsEmptyStringNever(text) == FALSE

\* !searchFid: of the strings, only the empty one is falsy
IsEmptyString(text) == text = <<>>

\* handleSearch() up to its await: the empty text returns, a text that is no
\* number throws into the catch, a number is fetched
HandleSearch ==
    /\ status = "mounted"
    /\ Calls < MaxCalls
    /\ nextSearch' = nextSearch + 1
    /\ IF IsEmptyString(searchFid)
       THEN UNCHANGED <<userStats, leaderboard, searchResults, error, searches>>
       ELSE IF isNaN(parseInt(searchFid))
            THEN HandleSearchCatch(Error("Invalid FID")) /\ UNCHANGED searches
            ELSE /\ searches' = searches \cup
                        {[id |-> nextSearch, fid |-> parseInt(searchFid).val]}
                 /\ UNCHANGED <<userStats, leaderboard, searchResults, error>>
    /\ UNCHANGED <<status, isSDKLoaded, context, currentView, searchFid, added,
                   loadPc, listeners, timers, cycles, nextCycle, clock,
                   allowanceVars>>

\* a resolution that leaves the error as it is
SearchResolveKeepingError(q) ==
    /\ q \in searches
    /\ searches' = searches \ {q}
    /\ searchResults' = SetState(searchResults, NutStats(q.fid, q.id))
    /\ UNCHANGED <<status, isSDKLoaded, context, currentView, userStats, leaderboard,
                   searchFid, error, added, loadPc, listeners, timers, cycles,
                   nextCycle, nextSearch, clock, allowanceVars>>

\* await fetchNutStats(fid) resolves: setSearchResults(results); setError('')
SearchResolve(q) ==
    /\ q \in searches
    /\ searches' = searches \ {q}
    /\ searchResults' = SetState(searchResults, NutStats(q.fid, q.id))
    /\ error' = SetState(error, "")
    /\ UNCHANGED <<status, isSDKLoaded, context, currentView, userStats, leaderboard,
                   searchFid, added, loadPc, listeners, timers, cycles, nextCycle,
                   nextSearch, clock, allowanceVars>>

\* a rejection that sets the error and keeps the result of the search before
SearchRejectKeepingResult(q, err) ==
    /\ q \in searches
    /\ searches' = searches \ {q}
    /\ error' = SetState(error, CatchMessage(err, "Failed to search"))
    /\ UNCHANGED <<status, isSDKLoaded, context, currentView, userStats, leaderboard,
                   searchFid, searchResults, added, loadPc, listeners, timers,
                   cycles, nextCycle, nextSearch, clock, allowanceVars>>

\* await fetchNutStats(fid) rejects: the catch
SearchReject(q, err) ==
    /\ q \in searches
    /\ searches' = searches \ {q}
    /\ HandleSearchCatch(err)
    /\ UNCHANGED <<status, isSDKLoaded, context, currentView, searchFid, added,
                   loadPc, listeners, timers, cycles, nextCycle, nextSearch, clock,
                   allowanceVars>>

(* --------------------------- view selector ---------------------------- *)
\* a selector that dismisses the error as the view changes
SetCurrentViewClearing(view) ==
    /\ status = "mounted"
    /\ currentView' = view
    /\ error' = ""
    /\ UNCHANGED <<status, isSDKLoaded, context, userStats, leaderboard, searchFid,
                   searchResults, added, loadPc, listeners,
                   timers, cycles, nextCycle, searches, nextSearch, clock,
                   allowanceVars>>

\* onClick of one of the three buttons: setCurrentView(view)
SetCurrentView(view) ==
    /\ status = "mounted"
    /\ currentView' = view
    /\ UNCHANGED <<status, isSDKLoaded, context, userStats, leaderboard, searchFid,
                   searchResults, error, added, loadPc, listeners,
                   timers, cycles, nextCycle, searches, nextSearch, clock,
                   allowanceVars>>

(* ------------------------- teardown and time -------------------------- *)
\* the view is torn down: the cleanup of the refresh effect runs, and the
\* component's state is discarded (the setters do nothing from now on)
Unmount ==
    /\ status = "mounted"
    /\ status' = "unmounted"
    /\ timers' = EffectCleanup(timers)
    /\ isSDKLoaded' = FALSE
    /\ context' = NoContext
    /\ currentView' = "STATS"
    /\ userStats' = Null
    /\ leaderboard' = EmptyBoard
    /\ searchFid' = <<>>
    /\ searchResults' = Null
    /\ error' = ""
    /\ added' = FALSE
    /\ UNCHANGED <<loadPc, listeners, cycles, nextCycle, searches, nextSearch,
                   clock, allowanceVars>>

Min(a, b) == IF a <= b THEN a ELSE b

\* the earliest time after the clock at which the clock must stop next
NextStop ==
    LET dues == {t.due : t \in timers} \cup {MaxTime}
    IN  Min(clock + TickStep, CHOOSE d \in dues : \A e \in dues : d <= e)

\* time passes, but not past an interval that is due
Tick ==
    /\ status # "init"
    /\ clock < MaxTime
    /\ \A t \in timers : clock < t.due
    /\ clock' = NextStop
    /\ UNCHANGED <<status, isSDKLoaded, context, currentView, userStats, leaderboard,
                   searchFid, searchResults, error, added, loadPc, listeners, timers, cycles, nextCycle, searches, nextSearch,
                   allowanceVars>>

(* ------------------------ daily allowance card ------------------------ *)
\* the UTC calendar fields and hours of the timestamps explored; months count
\* from 0 as getUTCMonth does
Years == {2025, 2026}
Months == {0, 1}
DatesOfMonth == {1, 2}
Hours == 0..23
LastUpdatedHours == {0, 23}

\* d.setUTCHours(hours, 0, 0, 0), hours in 0..23: the calendar date stays
setUTCHours(d, hours) == [d EXCEPT !.hours = hours]

\* no clamp: the first argument as it is
MaxUnclamped(a, b) == a

\* Math.max(a, b)
Max(a, b) == IF a >= b THEN a ELSE b

\* a comparison of the day of the month alone
calculateDailyAllowanceDayOnly(lu) ==
    LET now       == nowDate
        lastReset == setUTCHours(lu, ALLOWANCE_RESET_HOUR)
    IN  IF now.date # lastReset.date
        THEN DAILY_ALLOWANCE
        ELSE Max(DAILY_ALLOWANCE - (now.hours - ALLOWANCE_RESET_HOUR) * 1, 0)

\* calculateDailyAllowance(lastUpdated), nowDate being new Date()
calculateDailyAllowance(lu) ==
    LET now       == nowDate
        lastReset == setUTCHours(lu, ALLOWANCE_RESET_HOUR)
    IN  IF \/ now.date # lastReset.date
           \/ now.month # lastReset.month
           \/ now.year # lastReset.year
        THEN DAILY_ALLOWANCE
        ELSE Max(DAILY_ALLOWANCE - (now.hours - ALLOWANCE_RESET_HOUR) * 1, 0)

\* the Stats card is rendered: "Remaining" shows calculateDailyAllowance
RenderStats ==
    /\ status = "mounted"
    /\ currentView = "STATS"
    /\ userStats # Null
    /\ remaining = NotRendered
    /\ remaining' = calculateDailyAllowance(lastUpdated)
    /\ UNCHANGED <<viewVars, lastUpdated, nowDate, DAILY_ALLOWANCE,
                   ALLOWANCE_RESET_HOUR>>

(* --------------------------- specification ---------------------------- *)
\* the state after construction: the useState initial values, no effect run yet
InitView ==
    /\ status = "init"
    /\ isSDKLoaded = FALSE
    /\ context = NoContext
    /\ currentView = "STATS"
    /\ userStats = Null
    /\ leaderboard = EmptyBoard
    /\ searchFid = <<>>
    /\ searchResults = Null
    /\ error = ""
    /\ added = FALSE
    /\ loadPc = "idle"
    /\ listeners = FALSE
    /\ timers = {}
    /\ cycles = {}
    /\ nextCycle = 1
    /\ searches = {}
    /\ nextSearch = 1
    /\ clock = 0

\* the Stats card is not rendered
AllowanceIdle ==
    /\ lastUpdated = [year |-> 2025, month |-> 0, date |-> 1, hours |-> 0]
    /\ nowDate = [year |-> 2025, month |-> 0, date |-> 1, hours |-> 0]
    /\ DAILY_ALLOWANCE = 0
    /\ ALLOWANCE_RESET_HOUR = 0
    /\ remaining = NotRendered

Init == InitView /\ AllowanceIdle

\* the view's operations, the view selector apart
NextData ==
    \/ Mount
    \/ LoadNoContext
    \/ \E ctx \in Contexts : LoadContext(ctx)
    \/ FrameAdded
    \/ FrameRemoved
    \/ \E t \in timers : TimerFire(t)
    \/ \E c \in cycles : StatsResolve(c)
    \/ \E c \in cycles, err \in FetchNutStatsFailures : StatsReject(c, err)
    \/ \E c \in cycles : LeaderboardResolve(c)
    \/ \E c \in cycles, err \in FetchLeaderboardFailures : LeaderboardReject(c, err)
    \/ \E text \in SearchInputs : SetSearchFid(text)
    \/ HandleSearch
    \/ \E q \in searches : SearchResolve(q)
    \/ \E q \in searches, err \in FetchNutStatsFailures : SearchReject(q, err)
    \/ Unmount
    \/ Tick

Next ==
    \/ NextData
    \/ \E view \in ViewState : SetCurrentView(view)

\* the whole view
Spec == Init /\ [][Next]_vars

\* the view with the selector left where it is: no operation reads currentView,
\* so the other variables take the same values as under Spec
SpecData == Init /\ [][NextData]_vars

\* the view with time passing: the host's clock advances, and an interval
\* that has come due calls loadInitialData
SpecLive ==
    /\ Init
    /\ [][NextData]_vars
    /\ WF_vars(Tick)
    /\ WF_vars(\E t \in timers : TimerFire(t))

\* the view after the first refresh cycle of the identity 1 has landed: the
\* Stats card is about to be rendered for stats of any lastUpdated, at any time,
\* under any configuration
InitAllowance ==
    /\ status = "mounted"
    /\ isSDKLoaded = TRUE
    /\ context = [added |-> TRUE, fid |-> 1, present |-> TRUE]
    /\ currentView = "STATS"
    /\ userStats = NutStats(1, 2)
    /\ leaderboard = Leaderboard(2)
    /\ searchFid = <<>>
    /\ searchResults = Null
    /\ error = ""
    /\ added = TRUE
    /\ loadPc = "done"
    /\ listeners = TRUE
    /\ timers = {[id |-> 2, due |-> REFRESH_PERIOD, ctx |-> context]}
    /\ cycles = {}
    /\ nextCycle = 3
    /\ searches = {}
    /\ nextSearch = 1
    /\ clock = 0
    /\ lastUpdated \in [year : Years, month : Months, date : DatesOfMonth,
                        hours : LastUpdatedHours]
    /\ nowDate \in [year : Years, month : Months, date : DatesOfMonth, hours : Hours]
    /\ DAILY_ALLOWANCE \in 0..MaxAllowance
    /\ ALLOWANCE_RESET_HOUR \in Hours
    /\ remaining = NotRendered

NextAllowance == RenderStats

\* the Stats card: calculateDailyAllowance over its inputs
SpecAllowance == InitAllowance /\ [][NextAllowance]_vars

(* ======================= properties of the view ======================= *)
\* an authenticated identity is present in ctx
HasIdentity(ctx) == ctx.present /\ ctx.fid # 0

\* this step starts a fetch cycle
CycleStarts == nextCycle' # nextCycle

\* the fetch cycle this step starts
StartedCycle == CHOOSE d \in cycles' : d.id = nextCycle

\* this step is a failed fetch of the refresh loop, or of a search
StatsRejects == \E c \in cycles, err \in FetchNutStatsFailures : StatsReject(c, err)
LeaderboardRejects ==
    \E c \in cycles, err \in FetchLeaderboardFailures : LeaderboardReject(c, err)
SearchRejects == \E q \in searches, err \in FetchNutStatsFailures : SearchReject(q, err)

\* this step is a search whose text is not a number
SearchInvalid == HandleSearch /\ searchFid # <<>> /\ isNaN(parseInt(searchFid))

(* C1: within one fetch cycle the two fetches are independent: when the
   user-stats fetch fails the leaderboard is still fetched in that cycle, when
   the leaderboard fetch fails the user stats already applied stay applied,
   and in both cases the error slice is set. *)
C1_FetchesIndependent ==
    [][status = "mounted" =>
        /\ \A c \in cycles, err \in FetchNutStatsFailures :
              StatsReject(c, err) =>
                  /\ [c EXCEPT !.pc = "lb"] \in cycles'
                  /\ error' # ""
        /\ \A c \in cycles, err \in FetchLeaderboardFailures :
              LeaderboardReject(c, err) =>
                  /\ userStats' = userStats
                  /\ error' # ""]_vars

(* C3: the error message stays only until the next successful operation or
   the next error: after a refresh cycle whose fetches succeeded, or a search
   that succeeded, the error slice is empty, and after a failure it holds
   that failure's message. *)
C3_ErrorSuperseded ==
    [][status = "mounted" =>
        /\ \A c \in cycles : LeaderboardResolve(c) => error' = ""
        /\ \A q \in searches : SearchResolve(q) => error' = ""
        /\ \A c \in cycles, err \in FetchNutStatsFailures :
              StatsReject(c, err) => error' = err.message
        /\ \A c \in cycles, err \in FetchLeaderboardFailures :
              LeaderboardReject(c, err) => error' = err.message
        /\ \A q \in searches, err \in FetchNutStatsFailures :
              SearchReject(q, err) => error' = err.message]_vars

(* C4: the gate of the refresh loop follows the host's frameAdded and
   frameRemoved events, which the added flag records: with an identity
   present, a cycle that starts while the frame is added fetches the
   identity's stats, and a cycle that starts while it is removed does not. *)
C4_GateFollowsEvents ==
    [][(CycleStarts /\ status' = "mounted" /\ HasIdentity(context')) =>
          (StartedCycle.pc = "stats" <=> added')]_vars

(* C2: the remaining allowance the Stats card shows is never below 0 and
   never above the daily allowance, also when the reset hour of the day has
   not been reached yet. *)
C2_AllowanceInRange ==
    remaining # NotRendered => (0 <= remaining /\ remaining <= DAILY_ALLOWANCE)

(* C5: at every moment at most one refresh timer is active (a change of the
   context cancels the previous timer before it starts the new one), and once
   the view is torn down no timer is active and no fetch cycle starts. *)
C5_OneTimer ==
    /\ [](Cardinality(timers) <= 1)
    /\ [](status = "unmounted" => timers = {})
    /\ [][status = "unmounted" => ~CycleStarts]_vars

\* the view was torn down after the context had changed and a cycle of the new
\* context's timer had run
C5_Witness ==
    /\ status = "unmounted"
    /\ timers = {}
    /\ listeners
    /\ nextCycle = 4

(* C6: with no authenticated identity, every fetch cycle issues the
   leaderboard fetch and never the fetch of the user's own stats, and the
   own-stats slice is never written. *)
C6_NoIdentityNoStatsFetch ==
    /\ [](\A c \in cycles : ~HasIdentity(c.ctx) => c.pc = "lb")
    /\ [](~HasIdentity(context) => userStats = Null)
    /\ [][(CycleStarts /\ ~HasIdentity(context')) =>
             \E d \in cycles' : d.id = nextCycle /\ d.ctx = context' /\ d.pc = "lb"]_vars

\* the host's context says the frame is added but carries no identity, and a
\* cycle of the interval is fetching the leaderboard
C6_Witness ==
    /\ status = "mounted"
    /\ context.present /\ context.added /\ context.fid = 0
    /\ \E c \in cycles : c.id = 3 /\ c.ctx = context /\ c.pc = "lb"

(* C7: cycles are not serialized: each response that resolves replaces its
   slice with its own payload, whatever cycle the slice's value came from, so
   each slice holds the payload of the response that resolved last. *)
C7_LastResponseWins ==
    [][status = "mounted" =>
        /\ \A c \in cycles :
              StatsResolve(c) => userStats' = NutStats(c.ctx.fid, c.id)
        /\ \A c \in cycles :
              LeaderboardResolve(c) => leaderboard' = Leaderboard(c.id)]_vars

\* the leaderboard is the one of a later cycle, whose stats had therefore
\* landed, and the own stats are those of an earlier cycle
C7_Witness ==
    /\ status = "mounted"
    /\ userStats # Null
    /\ leaderboard # EmptyBoard
    /\ userStats.req < leaderboard[1].req

(* C8: the first render and every change of the context start one fetch cycle
   at once and set the interval to the period from now; any other cycle starts
   when the interval is due and sets it one period later; and the clock never
   passes an interval that is due. *)
C8_ImmediateThenPeriodic ==
    /\ [][(status' = "mounted" /\ (status = "init" \/ context' # context)) =>
            /\ CycleStarts
            /\ StartedCycle.ctx = context'
            /\ clock' = clock
            /\ timers' = {[id |-> nextCycle, due |-> clock + 30, ctx |-> context']}]_vars
    /\ [][(CycleStarts /\ status = "mounted" /\ context' = context) =>
            \E t \in timers :
                /\ t.due = clock
                /\ StartedCycle.ctx = t.ctx
                /\ timers' = {[t EXCEPT !.due = clock + 30]}]_vars
    /\ [](\A t \in timers : clock <= t.due /\ t.due <= clock + 30)

\* the interval of the host's context has fired once: cycles at its start and
\* one period later
C8_Witness ==
    /\ status = "mounted"
    /\ context.present
    /\ clock = 60
    /\ \E t \in timers : t.ctx = context /\ t.id = 2 /\ t.due = 90
    /\ nextCycle = 4

(* C9 as stated: a failed fetch overwrites the error message and clears the
   result slice of the operation that failed, and only that slice. *)
C9_FailureClearsOwnSlice ==
    [][status = "mounted" =>
        /\ \A c \in cycles, err \in FetchNutStatsFailures :
              StatsReject(c, err) =>
                  /\ error' = err.message
                  /\ userStats' = Null
                  /\ leaderboard' = leaderboard /\ searchResults' = searchResults
        /\ \A c \in cycles, err \in FetchLeaderboardFailures :
              LeaderboardReject(c, err) =>
                  /\ error' = err.message
                  /\ leaderboard' = EmptyBoard
                  /\ userStats' = userStats /\ searchResults' = searchResults
        /\ \A q \in searches, err \in FetchNutStatsFailures :
              SearchReject(q, err) =>
                  /\ error' = err.message
                  /\ searchResults' = Null
                  /\ userStats' = userStats /\ leaderboard' = leaderboard]_vars

(* C9 as amended: a failed fetch overwrites the error message with the
   failure's message; a failed search clears the search result and leaves the
   own stats and the leaderboard alone; a failed fetch of the refresh loop
   clears no slice. *)
C9_FailureClearsSearchOnly ==
    [][status = "mounted" =>
        /\ \A c \in cycles, err \in FetchNutStatsFailures :
              StatsReject(c, err) =>
                  /\ error' = err.message
                  /\ userStats' = userStats
                  /\ leaderboard' = leaderboard /\ searchResults' = searchResults
        /\ \A c \in cycles, err \in FetchLeaderboardFailures :
              LeaderboardReject(c, err) =>
                  /\ error' = err.message
                  /\ leaderboard' = leaderboard
                  /\ userStats' = userStats /\ searchResults' = searchResults
        /\ \A q \in searches, err \in FetchNutStatsFailures :
              SearchReject(q, err) =>
                  /\ error' = err.message
                  /\ searchResults' = Null
                  /\ userStats' = userStats /\ leaderboard' = leaderboard]_vars

\* the second cycle's leaderboard fetch has failed and the first cycle's
\* leaderboard is shown with the message
C9_Witness ==
    /\ status = "mounted"
    /\ error = "Failed to fetch leaderboard"
    /\ leaderboard = Leaderboard(1)
    /\ cycles = {}
    /\ nextCycle = 3

\* this step is a failed operation: a fetch of the loop, a search, a validation
FailedOperation ==
    StatsRejects \/ LeaderboardRejects \/ SearchRejects \/ SearchInvalid

(* C10 as stated: after any failed operation the view is still running, the
   error slice holds a message and every data slice holds what it held. *)
C10_FailureKeepsAllData ==
    [][(status = "mounted" /\ FailedOperation) =>
          /\ status' = "mounted"
          /\ error' # ""
          /\ userStats' = userStats
          /\ leaderboard' = leaderboard
          /\ searchResults' = searchResults]_vars

(* C10 as amended: after any failed operation the view is still running, the
   error slice holds a message, and the own stats and the leaderboard hold
   what they held; the search result holds what it held after a failure of
   the refresh loop, and is cleared by a failed search. *)
C10_FailureKeepsLoopData ==
    [][(status = "mounted" /\ FailedOperation) =>
          /\ status' = "mounted"
          /\ error' # ""
          /\ userStats' = userStats
          /\ leaderboard' = leaderboard
          /\ (StatsRejects \/ LeaderboardRejects) => searchResults' = searchResults
          /\ (SearchRejects \/ SearchInvalid) => searchResults' = Null]_vars

\* the own stats and the leaderboard are shown after the own-stats fetch of a
\* later cycle has failed
C10_Witness ==
    /\ status = "mounted"
    /\ error = "Failed to fetch stats"
    /\ nextSearch = 1
    /\ userStats # Null /\ userStats.req = 2
    /\ leaderboard = Leaderboard(2)
    /\ cycles = {}
    /\ nextCycle = 4

(* ================= properties of the daily allowance ================== *)
\* the two timestamps are on one UTC calendar date
SameUTCDate(a, b) == a.year = b.year /\ a.month = b.month /\ a.date = b.date

(* C11: when lastUpdated is on another UTC calendar date (year, month or
   day) than now, the remaining allowance shown is exactly the daily
   allowance, whatever the time of day of either and whatever the reset hour. *)
C11_OtherDateFullAllowance ==
    (remaining # NotRendered /\ ~SameUTCDate(lastUpdated, nowDate)) =>
        remaining = DAILY_ALLOWANCE

\* lastUpdated at 23:00 on a day, now 01:00 on the next, allowance 10: 10 shown
C11_Witness ==
    /\ remaining = 10
    /\ DAILY_ALLOWANCE = 10
    /\ ALLOWANCE_RESET_HOUR = 0
    /\ lastUpdated = [year |-> 2025, month |-> 1, date |-> 1, hours |-> 23]
    /\ nowDate = [year |-> 2025, month |-> 1, date |-> 2, hours |-> 1]

(* C12: when lastUpdated and now are on one UTC calendar date and the reset
   hour has been reached, the remaining allowance is the daily allowance less
   1 for each hour past the reset hour, and 0 once that is negative. *)
C12_DecayPerHourClamped ==
    (/\ remaining # NotRendered
     /\ SameUTCDate(lastUpdated, nowDate)
     /\ nowDate.hours >= ALLOWANCE_RESET_HOUR) =>
        LET left == DAILY_ALLOWANCE - (nowDate.hours - ALLOWANCE_RESET_HOUR)
        IN  remaining = IF left > 0 THEN left ELSE 0

\* allowance 5, reset hour 0, 23:00 on the date of lastUpdated: 0 shown
C12_Witness ==
    /\ remaining = 0
    /\ DAILY_ALLOWANCE = 5
    /\ ALLOWANCE_RESET_HOUR = 0
    /\ nowDate.hours = 23
    /\ SameUTCDate(lastUpdated, nowDate)

(* ===================== properties of the search ======================= *)
\* the slices of displayed data and the error
dataSlices == <<userStats, leaderboard, searchResults, error>>

\* the requests in flight, and the counts of those started
fetches == <<cycles, nextCycle, searches>>

(* C13: a search submitted with the empty text does nothing: no fetch is
   started, and the own stats, the leaderboard, the search result, the error,
   the text and the view selector stay as they are. *)
C13_EmptySearchNoOp ==
    [][(HandleSearch /\ searchFid = <<>>) =>
          UNCHANGED <<dataSlices, fetches, searchFid, currentView, context, timers>>]_vars

\* an empty search was submitted with a leaderboard on display
C13_Witness ==
    /\ status = "mounted"
    /\ searchFid = <<>>
    /\ nextSearch = 2
    /\ searches = {}
    /\ searchResults = Null
    /\ error = ""
    /\ leaderboard # EmptyBoard

(* C14: a search submitted with the text "abc" starts no fetch, sets the error
   to "Invalid FID" and clears the search result. *)
C14_InvalidFidRejected ==
    [][(HandleSearch /\ searchFid = <<"a", "b", "c">>) =>
          /\ UNCHANGED fetches
          /\ error' = "Invalid FID"
          /\ searchResults' = Null
          /\ UNCHANGED <<userStats, leaderboard>>]_vars

\* "abc" was the second text submitted, and its error is on display
C14_Witness ==
    /\ status = "mounted"
    /\ searchFid = <<"a", "b", "c">>
    /\ error = "Invalid FID"
    /\ searchResults = Null
    /\ searches = {}
    /\ nextSearch = 3

(* C15: a search submitted with the text of a number starts one fetch for
   that number, and when the fetch succeeds the search result becomes the
   stats returned for it and the error becomes empty, whatever it was. *)
C15_SearchSuccessReplaces ==
    [][status = "mounted" =>
        /\ \A f \in 1..MaxFid :
              (HandleSearch /\ searchFid = FidText(f)) =>
                  /\ searches' = searches \cup {[id |-> nextSearch, fid |-> f]}
                  /\ UNCHANGED dataSlices
        /\ \A q \in searches :
              SearchResolve(q) =>
                  /\ searchResults' = [fid |-> q.fid, req |-> q.id]
                  /\ error' = ""]_vars

\* the only refresh cycle has failed, and a search that succeeded has cleared
\* its error
C15_Witness ==
    /\ status = "mounted"
    /\ nextCycle = 2
    /\ cycles = {}
    /\ leaderboard = EmptyBoard
    /\ searchResults = [fid |-> 1, req |-> 1]
    /\ error = ""

(* C16: when the fetch of a search fails, the error becomes the message of
   the failure, or "Failed to search" when the failure carries none, and the
   search result is cleared, so no result of an earlier search stays on
   display after a later search has failed. *)
C16_SearchFailureClears ==
    [][status = "mounted" =>
        \A q \in searches, err \in FetchNutStatsFailures :
            SearchReject(q, err) =>
                /\ error' = (IF err.isError THEN err.message ELSE "Failed to search")
                /\ searchResults' = Null]_vars

\* the second submission was a search whose fetch has failed, in a view
\* without identity, whose refresh cycles fetch no stats
C16_Witness ==
    /\ status = "mounted"
    /\ nextSearch = 3
    /\ searches = {}
    /\ searchFid = FidText(1)
    /\ searchResults = Null
    /\ context.present /\ context.fid = 0
    /\ error = "Failed to fetch stats"

(* ================== properties of the view selector =================== *)
(* C17: the view selector shows Stats when the view is mounted, is always at
   exactly one of Stats, Leaderboard and Search, can be moved to each of the
   three from every state of the mounted view, and a move changes nothing but
   the selector: the own stats, the leaderboard, the search result, the error
   and the search text stay, and no fetch and no timer is started. *)
C17_SelectorOnlySelects ==
    /\ [][Mount => currentView' = "STATS"]_vars
    /\ [](currentView \in ViewState)
    /\ [](status = "mounted" => \A view \in ViewState : ENABLED SetCurrentView(view))
    /\ [][\A view \in ViewState :
            SetCurrentView(view) =>
                UNCHANGED <<dataSlices, fetches, nextSearch, timers, searchFid,
                            context>>]_vars

\* the Search view is selected with all three slices loaded and an error shown
C17_Witness ==
    /\ status = "mounted"
    /\ currentView = "SEARCH"
    /\ userStats # Null
    /\ leaderboard # EmptyBoard
    /\ searchResults # Null
    /\ error # ""

(* ================= properties of the slices' owners =================== *)
(* C18: in every reachable state, own stats on display are the stats of the
   identity of the current context: the slice is empty or its fid is the fid
   of the context, and that context has an identity. *)
C18_OwnStatsOfIdentity ==
    userStats # Null => (HasIdentity(context) /\ userStats.fid = context.fid)

\* own stats are on display while a later fetch of them is in flight
C18_Witness ==
    /\ status = "mounted"
    /\ userStats # Null
    /\ userStats.fid = context.fid
    /\ \E c \in cycles : c.pc = "stats" /\ c.id > userStats.req

\* this step is a step of a search: its submission or the end of its fetch
SearchStep ==
    \/ HandleSearch
    \/ \E q \in searches : SearchResolve(q)
    \/ SearchRejects

\* this step is a step of a refresh cycle: its start or the end of a fetch
CycleStep ==
    \/ CycleStarts
    \/ \E c \in cycles : StatsResolve(c) \/ LeaderboardResolve(c)
    \/ StatsRejects
    \/ LeaderboardRejects

(* C19: a step of a search, whether it succeeds, fails validation or fails
   its fetch, leaves the own stats and the leaderboard as they are, and a
   step of a refresh cycle, whether it succeeds or fails, leaves the search
   result as it is. *)
C19_SlicesHaveOneWriter ==
    [][status = "mounted" =>
        /\ SearchStep => UNCHANGED <<userStats, leaderboard>>
        /\ CycleStep => UNCHANGED searchResults]_vars

\* a refresh cycle has failed after a search had succeeded, and the result of
\* the search is still on display beside the own stats
C19_Witness ==
    /\ status = "mounted"
    /\ searchResults # Null
    /\ userStats # Null
    /\ error = "Failed to fetch leaderboard"

(* =================== properties of the retry policy =================== *)
\* the model follows the view no further: the calls are used up, or the
\* interval comes due after the last instant of the clock
BeyondBounds ==
    \/ Calls >= MaxCalls
    \/ timers # {} /\ \A t \in timers : t.due > MaxTime

(* C20: the refresh loop goes on whatever its cycles end in: from every state
   of the mounted view, so from the state a failed cycle leaves, a further
   cycle is eventually started unless the view is torn down, and a fetch of a
   search is started by a submission only, never by the failure of a search
   or by the passing of time. *)
C20_LoopRetriesSearchDoesNot ==
    /\ \A n \in 1..(MaxCalls + 1) :
          (status = "mounted" /\ nextCycle = n)
              ~> (nextCycle > n \/ status = "unmounted" \/ BeyondBounds)
    /\ [][(searches' \ searches # {}) => HandleSearch]_vars
    /\ [][SearchRejects => (searches' \subseteq searches /\ UNCHANGED nextSearch)]_vars

\* no cycle has loaded a leaderboard, the last to end has failed, and the
\* interval has started the next one
C20_Witness ==
    /\ status = "mounted"
    /\ clock = REFRESH_PERIOD
    /\ error = "Failed to fetch leaderboard"
    /\ leaderboard = EmptyBoard
    /\ nextCycle = 4
    /\ cycles = {[id |-> 3, ctx |-> context, pc |-> "lb"]}
============================================================================
